---------------------------- MODULE Spec2Model ----------------------------
(***************************************************************************)
(* cloudflare-speed: the measurement pipeline of cmd/cloudflare-speed      *)
(* (main.go) and the statistics of internal/math.                          *)
(*                                                                         *)
(* Numbers.  A float64 is modelled on an integer grid: latencies and       *)
(* durations in microseconds, speeds in Mbps (bits per microsecond).       *)
(*                The timings the network may deliver are chosen so that   *)
(* every quotient the pipeline reports (a speed, a median) is exact on     *)
(* that grid; Average and Jitter truncate to the grid.  IEEE +Inf, which   *)
(* measureSpeed yields for a zero duration, is PosInf.                     *)
(*                                                                         *)
(* Strings.  A header value is a sequence of one-character strings, so     *)
(* that strings.Split, TrimSpace, HasPrefix and ParseFloat are computed.   *)
(***************************************************************************)
EXTENDS Integers, Sequences, FiniteSets, TLC

(***************************************************************************)
(* Bounds of the model (not program constants).                            *)
(***************************************************************************)
\* How often in one run the network may depart from its course: fail one
\* request while it is reachable, or change its condition (become
\* unreachable or reachable again, change the time to first byte, the
\* transfer time, or the Server-Timing header it sends).  It may be
\* unreachable from the start for free.
MaxAnomalies == 1

\* The longest sample sequence StatsSpec draws for the statistics functions.
MaxLen == 4

\* The most fields (separated by ";") of a Server-Timing value HeaderSpec draws.
MaxFields == 3

(***************************************************************************)
(* float64 on the grid                                                     *)
(***************************************************************************)
PosInf == 2147483647

IsInf(x) == x = PosInf

FAdd(a, b) == IF IsInf(a) \/ IsInf(b) THEN PosInf ELSE a + b

\* a / n for a positive count n
FDivN(a, n) == IF IsInf(a) THEN PosInf ELSE a \div n

Min(a, b) == IF a < b THEN a ELSE b

RECURSIVE SumSeq(_)
SumSeq(s) == IF s = <<>> THEN 0 ELSE FAdd(Head(s), SumSeq(Tail(s)))

(***************************************************************************)
(* internal/math                                                           *)
(***************************************************************************)
\* sort.Float64s: ascending, +Inf last
Float64s(s) == SortSeq(s, LAMBDA a, b : a < b)

Average(values) ==
    IF Len(values) = 0 THEN 0
    ELSE FDivN(SumSeq(values), Len(values))

\* Median, had it sorted the caller's slice in place
MedianSortsArgument(values) ==
    IF Len(values) = 0 THEN [ret |-> 0, values |-> values]
    ELSE LET sorted == Float64s(values)
             mid == Len(sorted) \div 2
         IN  [ret |-> IF Len(sorted) % 2 = 0
                         THEN FDivN(FAdd(sorted[mid], sorted[mid + 1]), 2)
                         ELSE sorted[mid + 1],
              values |-> sorted]

\* Median, had it returned the upper middle element for an even count
MedianUpperMiddle(values) ==
    IF Len(values) = 0 THEN [ret |-> 0, values |-> values]
    ELSE LET copy == [k \in 1..Len(values) |-> values[k]]
             sorted == Float64s(copy)
             mid == Len(sorted) \div 2
         IN  [ret |-> sorted[mid + 1], values |-> values]

\* A call of Median: ret is the value returned, values is the caller's slice
\* as the call leaves it (the sort works on the copy `sorted`).
MedianCall(values) ==
    IF Len(values) = 0 THEN [ret |-> 0, values |-> values]
    ELSE LET copy == [k \in 1..Len(values) |-> values[k]]
             sorted == Float64s(copy)
             mid == Len(sorted) \div 2       \* 0-based index of the code
         IN  [ret |-> IF Len(sorted) % 2 = 0
                         THEN FDivN(FAdd(sorted[mid], sorted[mid + 1]), 2)
                         ELSE sorted[mid + 1],
              values |-> values]

Median(values) == MedianCall(values).ret

Jitter(values) ==
    IF Len(values) <= 1 THEN 0
    ELSE LET avg == Average(values)
             sq == [k \in 1..Len(values) |-> (values[k] - avg) * (values[k] - avg)]
         IN  SumSeq(sq) \div (Len(values) - 1)

\* Go's bounds check of s[pos] (pos 0-based): an index outside 0..len-1 panics.
InRange(s, pos) == 0 <= pos /\ pos < Len(s)

Index(s, pos) == IF InRange(s, pos) THEN s[pos + 1] ELSE 0

\* A quantile q is the rational qn / QDen.
QDen == 10

\* Quartile, had it not clamped pos to the last index
QuartileNoClamp(values, qn) ==
    IF Len(values) = 0
    THEN [ret |-> 0, values |-> values, pos |-> 0, panicked |-> FALSE]
    ELSE LET copy == [k \in 1..Len(values) |-> values[k]]
             sorted == Float64s(copy)
             pos == (Len(sorted) * qn) \div QDen
         IN  [ret |-> Index(sorted, pos), values |-> values, pos |-> pos,
              panicked |-> ~InRange(sorted, pos)]

\* A call of Quartile: ret is the value returned, values the caller's slice as
\* the call leaves it, pos the 0-based index read, panicked whether reading
\* sorted[pos] failed Go's bounds check.
QuartileCall(values, qn) ==
    IF Len(values) = 0
    THEN [ret |-> 0, values |-> values, pos |-> 0, panicked |-> FALSE]
    ELSE LET copy == [k \in 1..Len(values) |-> values[k]]
             sorted == Float64s(copy)
             raw == (Len(sorted) * qn) \div QDen
             pos == IF raw >= Len(sorted) THEN Len(sorted) - 1 ELSE raw
         IN  [ret |-> Index(sorted, pos), values |-> values, pos |-> pos,
              panicked |-> ~InRange(sorted, pos)]

Quartile(values, qn) == QuartileCall(values, qn).ret

(***************************************************************************)
(* strings and strconv, on sequences of one-character strings              *)
(***************************************************************************)
RECURSIVE SplitFrom(_, _, _)
\* strings.Split(s, sep) for a one-character sep; cur is the field being read
SplitFrom(s, sep, cur) ==
    IF s = <<>> THEN <<cur>>
    ELSE IF Head(s) = sep THEN <<cur>> \o SplitFrom(Tail(s), sep, <<>>)
    ELSE SplitFrom(Tail(s), sep, Append(cur, Head(s)))

Split(s, sep) == SplitFrom(s, sep, <<>>)

RECURSIVE TrimLeft(_)
TrimLeft(s) == IF s # <<>> /\ Head(s) = " " THEN TrimLeft(Tail(s)) ELSE s

RECURSIVE TrimRight(_)
TrimRight(s) ==
    IF s # <<>> /\ s[Len(s)] = " " THEN TrimRight(SubSeq(s, 1, Len(s) - 1)) ELSE s

TrimSpace(s) == TrimRight(TrimLeft(s))

HasPrefix(s, p) == Len(s) >= Len(p) /\ SubSeq(s, 1, Len(p)) = p

Digits == {"0", "1", "2", "3", "4", "5", "6", "7", "8", "9"}

DigitVal(c) ==
    CASE c = "0" -> 0 [] c = "1" -> 1 [] c = "2" -> 2 [] c = "3" -> 3
      [] c = "4" -> 4 [] c = "5" -> 5 [] c = "6" -> 6 [] c = "7" -> 7
      [] c = "8" -> 8 [] c = "9" -> 9

RECURSIVE NatOf(_, _)
NatOf(s, acc) == IF s = <<>> THEN acc ELSE NatOf(Tail(s), acc * 10 + DigitVal(Head(s)))

\* the three digits after the point, as thousandths (later digits fall off the grid)
Thousandths(frac) ==
    LET d(k) == IF k <= Len(frac) THEN DigitVal(frac[k]) ELSE 0
    IN  d(1) * 100 + d(2) * 10 + d(3)

\* strconv.ParseFloat(s, 64) for the plain decimal forms (digits, with at most
\* one point and at least one digit); every other text is a syntax error here.
\* val is in thousandths: a duration in milliseconds comes out in microseconds.
ParseFloat(s) ==
    LET parts == Split(s, ".")
        ip == parts[1]
        fp == IF Len(parts) = 2 THEN parts[2] ELSE <<>>
        wellFormed == /\ Len(parts) <= 2
                      /\ \A k \in 1..Len(ip) : ip[k] \in Digits
                      /\ \A k \in 1..Len(fp) : fp[k] \in Digits
                      /\ Len(ip) + Len(fp) > 0
    IN  IF wellFormed
        THEN [ok |-> TRUE, val |-> NatOf(ip, 0) * 1000 + Thousandths(fp)]
        ELSE [ok |-> FALSE, val |-> 0]

(***************************************************************************)
(* cmd/cloudflare-speed: the fixed protocol                                *)
(***************************************************************************)
LatencyIterations == 20

LatencyBytes == 1000

DownloadTiers ==
    << [bytes |-> 101000,    iterations |-> 10, label |-> "100kB speed"],
       [bytes |-> 1001000,   iterations |-> 8,  label |-> "1MB speed"],
       [bytes |-> 10001000,  iterations |-> 6,  label |-> "10MB speed"],
       [bytes |-> 25001000,  iterations |-> 4,  label |-> "25MB speed"],
       [bytes |-> 100001000, iterations |-> 1,  label |-> "100MB speed"] >>

UploadTiers ==
    << [bytes |-> 11000,   iterations |-> 10],
       [bytes |-> 101000,  iterations |-> 10],
       [bytes |-> 1001000, iterations |-> 8] >>

\* the quantile of the overall figures, 0.9, in tenths
OverallQ == 9

\* http.Client.Timeout in seconds; 0 is Go's "no timeout".  get sets 30 s,
\* request builds its client without a Timeout.
GetTimeout == 30

RequestTimeout == 0

(***************************************************************************)
(* The network, as far as the model lets it vary                           *)
(***************************************************************************)
\* Time to first byte after `started`, in microseconds; the first is nominal.
TtfbChoices == <<20000, 21000>>

\* Body transfer time (ended - ttfb) in microseconds; the first is nominal.
TransferChoices == <<1000, 2000>>

\* Values of the Server-Timing response header ("" is the header absent);
\* the first is nominal.
ServerTimingChoices ==
    << <<"c", "f", "-", "e", "d", "g", "e", ";", " ", "d", "u", "r", "=", "2">>,
       << >> >>

\* Bodies of /locations: a JSON array of {iata, city}, or something that
\* json.Unmarshal rejects.
LocationBodies ==
    { [valid |-> TRUE,  entries |-> << [iata |-> "LHR", city |-> "London"],
                                       [iata |-> "AMS", city |-> "Amsterdam"] >>],
      [valid |-> FALSE, entries |-> << >>] }

\* Bodies of /cdn-cgi/trace: the lines, each already split on "=".
TraceBodies ==
    { << <<"colo", "LHR">>, <<"ip", "192.0.2.7">>, <<"loc", "GB">>, <<"h", "a", "b">> >>,
      << <<"ip", "192.0.2.7">>, <<"">> >> }

(***************************************************************************)
(* State                                                                   *)
(***************************************************************************)
VARIABLES
    pc,             \* where main / speedTest stands
    tier,           \* which download or upload tier is running (1-based)
    i,              \* the loop variable of the running measure function
    measurements,   \* the running measure function's slice
    reqErr,         \* err of the last download/upload call of the loop
    net,            \* the request under way: "idle" (none), "sent", "body"
    req,            \* what was asked for: method, path, bytes (query or body size)
    timing,         \* the request's requestTiming, offsets from `started`
    openBodies,     \* response bodies opened and not yet closed
    pingResults,    \* measureLatency's result, <<>> before
    serverLocationData,
    traceData,
    testDown,       \* testDown1..testDown5, as far as assigned
    testUp,         \* testUp1..testUp3, as far as assigned
    downloadTests,
    uploadTests,
    stdout,         \* the lines printed, in order
    stderr,
    retErr,         \* what speedTest returned: "" is nil
    exitCode,       \* -1 while the process runs
    calls,          \* download/upload calls made by the running measure function
    dropped,        \* of these, how many returned an error
    network,        \* the network's condition: down (every request fails), and
                    \* which ttfb, transfer time and Server-Timing it delivers
    anomalies,      \* what the network has spent of MaxAnomalies
    sArg,           \* StatsSpec: the caller's slice
    sQ,             \* StatsSpec: the quantile, in tenths
    sRes,           \* StatsSpec: the last call made and what it returned
    respHeader      \* the Server-Timing value of the response request holds
                    \* (resp.Header.Get: << >> when the header is absent)

vars == << pc, tier, i, measurements, reqErr, net, req, timing, openBodies,
           pingResults, serverLocationData, traceData, testDown, testUp,
           downloadTests, uploadTests, stdout, stderr, retErr, exitCode,
           calls, dropped, network, anomalies, sArg, sQ, sRes, respHeader >>

NoReq == [method |-> "", path |-> "", bytes |-> 0]

NoCall == [fn |-> "", input |-> << >>, q |-> 0, ret |-> 0, out |-> << >>,
           pos |-> 0, panicked |-> FALSE]

\* the nominal condition: the first of each list of choices
Nominal(d) == [down |-> d, ttfb |-> 1, transfer |-> 1, serverTiming |-> 1]

ZeroTiming == [ttfb |-> 0, ended |-> 0, serverTiming |-> 0]

EmptyMap == [k \in {} |-> ""]

\* a Go map read: the zero value for a missing key
MapGet(m, k) == IF k \in DOMAIN m THEN m[k] ELSE ""

Line(label, text, num) == [label |-> label, text |-> text, num |-> num]

\* fmt.Printf("Error: %v\n", err) of the measure loops; the text of err is not kept
ErrorLine == Line("Error", "", 0)

Init ==
    /\ pc = "main"
    /\ tier = 0
    /\ i = 0
    /\ measurements = << >>
    /\ reqErr = ""
    /\ net = "idle"
    /\ req = NoReq
    /\ timing = ZeroTiming
    /\ openBodies = 0
    /\ pingResults = << >>
    /\ serverLocationData = EmptyMap
    /\ traceData = EmptyMap
    /\ testDown = << >>
    /\ testUp = << >>
    /\ downloadTests = << >>
    /\ uploadTests = << >>
    /\ stdout = << >>
    /\ stderr = << >>
    /\ retErr = ""
    /\ exitCode = 0 - 1
    /\ calls = 0
    /\ dropped = 0
    /\ network \in {Nominal(d) : d \in BOOLEAN}
    /\ anomalies = 0
    /\ sArg = << >>
    /\ sQ = 0
    /\ sRes = NoCall
    /\ respHeader = << >>

(***************************************************************************)
(* request: the Server-Timing header, and the derived samples              *)
(***************************************************************************)
DurPrefix == <<"d", "u", "r", "=">>

RECURSIVE FirstDur(_)
\* the duration of the first field of parts that reads dur=<number>, else 0
FirstDur(parts) ==
    IF parts = << >> THEN 0
    ELSE LET durPart == TrimSpace(Head(parts))
             r == IF HasPrefix(durPart, DurPrefix)
                  THEN ParseFloat(SubSeq(durPart, 5, Len(durPart)))
                  ELSE [ok |-> FALSE, val |-> 0]
         IN  IF r.ok THEN r.val ELSE FirstDur(Tail(parts))

\* ServerTimingOf, had request looked for dur= in every field of the header
ServerTimingAnyField(header) ==
    IF header # << >> THEN FirstDur(Split(header, ";")) ELSE 0

\* timing.serverTiming after the header is parsed, in microseconds (the
\* header's milliseconds in thousandths); 0 when nothing is parsed
ServerTimingOf(header) ==
    IF header # << >>
    THEN LET parts == Split(header, ";")
         IN  IF Len(parts) > 1
             THEN LET durPart == TrimSpace(parts[2])
                  IN  IF HasPrefix(durPart, DurPrefix)
                      THEN LET r == ParseFloat(SubSeq(durPart, 5, Len(durPart)))
                           IN  IF r.ok THEN r.val ELSE 0
                      ELSE 0
             ELSE 0
    ELSE 0

\* bits per microsecond = Mbps; a zero duration divides by zero
measureSpeed(bytes, duration) ==
    IF duration = 0 THEN PosInf ELSE (bytes * 8) \div duration

\* TTFB minus the server's processing time (here in microseconds)
LatencySample(t) == t.ttfb - t.serverTiming

DownloadSample(bytes, t) == measureSpeed(bytes, t.ended - t.ttfb)

\* time.Duration(timing.serverTiming * float64(time.Millisecond))
UploadSample(bytes, t) == measureSpeed(bytes, t.serverTiming)

(***************************************************************************)
(* The measure loops: measureLatency, measureDownload, measureUpload       *)
(***************************************************************************)
InProbePhase == pc \in {"latency", "download", "upload"}

Iterations ==
    CASE pc = "latency"  -> LatencyIterations
      [] pc = "download" -> DownloadTiers[tier].iterations
      [] pc = "upload"   -> UploadTiers[tier].iterations
      [] OTHER           -> 0

ProbeBytes ==
    CASE pc = "latency"  -> LatencyBytes
      [] pc = "download" -> DownloadTiers[tier].bytes
      [] pc = "upload"   -> UploadTiers[tier].bytes
      [] OTHER           -> 0

\* download(bytes) and upload(bytes): the request they ask for
ProbeReq ==
    IF pc = "upload"
    THEN [method |-> "POST", path |-> "/__up", bytes |-> ProbeBytes]
    ELSE [method |-> "GET", path |-> "/__down", bytes |-> ProbeBytes]

\* A failure costs one of the run's anomalies, and nothing while the network
\* is unreachable.
FailCost == IF network.down THEN 0 ELSE 1

Affordable(c) == anomalies + c <= MaxAnomalies

\* The loop body when download/upload returned err: print it and continue.
DropIteration(kind) ==
    /\ reqErr' = kind
    /\ stdout' = Append(stdout, ErrorLine)
    /\ i' = i + 1
    /\ dropped' = dropped + 1
    /\ anomalies' = anomalies + FailCost
    /\ net' = "idle"
    /\ req' = NoReq
    /\ timing' = ZeroTiming
    /\ respHeader' = << >>
    /\ UNCHANGED << pc, tier, measurements, pingResults, serverLocationData,
                    traceData, testDown, testUp, downloadTests, uploadTests,
                    stderr, retErr, exitCode, network, sArg, sQ, sRes >>

\* http.NewRequest fails: request returns the error before anything is sent.
ProbeBuildFail ==
    /\ InProbePhase /\ net = "idle" /\ i < Iterations
    /\ Affordable(FailCost)
    /\ calls' = calls + 1
    /\ openBodies' = openBodies
    /\ DropIteration("build")

\* client.Do is called: the request is on the wire.
ProbeSend ==
    /\ InProbePhase /\ net = "idle" /\ i < Iterations
    /\ calls' = calls + 1
    /\ net' = "sent"
    /\ req' = ProbeReq
    /\ timing' = ZeroTiming
    /\ UNCHANGED << pc, tier, i, measurements, reqErr, openBodies, pingResults,
                    serverLocationData, traceData, testDown, testUp,
                    downloadTests, uploadTests, stdout, stderr, retErr,
                    exitCode, dropped, anomalies, network, sArg, sQ, sRes, respHeader >>

\* ProbeDoFail, had the loop tried the failed iteration again
ProbeDoFailRetries ==
    /\ InProbePhase /\ net = "sent"
    /\ Affordable(FailCost)
    /\ reqErr' = "do"
    /\ stdout' = Append(stdout, ErrorLine)
    /\ dropped' = dropped + 1
    /\ anomalies' = anomalies + FailCost
    /\ net' = "idle"
    /\ req' = NoReq
    /\ timing' = ZeroTiming
    /\ UNCHANGED << pc, tier, i, measurements, pingResults, serverLocationData,
                    traceData, testDown, testUp, downloadTests, uploadTests,
                    stderr, retErr, exitCode, calls, openBodies, network,
                    sArg, sQ, sRes, respHeader >>

\* ProbeDoFail, had the measure function returned the error to speedTest
ProbeDoFailAborts ==
    /\ InProbePhase /\ net = "sent"
    /\ Affordable(FailCost)
    /\ reqErr' = "do"
    /\ pc' = "return"
    /\ retErr' = "failed to measure"
    /\ dropped' = dropped + 1
    /\ anomalies' = anomalies + FailCost
    /\ net' = "idle"
    /\ req' = NoReq
    /\ timing' = ZeroTiming
    /\ UNCHANGED << tier, i, measurements, pingResults, serverLocationData,
                    traceData, testDown, testUp, downloadTests, uploadTests,
                    stdout, stderr, exitCode, calls, openBodies, network,
                    sArg, sQ, sRes, respHeader >>

\* client.Do returns an error (DNS, connect, TLS, reset).
ProbeDoFail ==
    /\ InProbePhase /\ net = "sent"
    /\ Affordable(FailCost)
    /\ UNCHANGED << calls, openBodies >>
    /\ DropIteration("do")

\* client.Do returns the response: the first byte has arrived, the body is open.
ProbeHeaders ==
    /\ InProbePhase /\ net = "sent" /\ ~network.down
    /\ timing' = [timing EXCEPT !.ttfb = TtfbChoices[network.ttfb]]
    /\ net' = "body"
    /\ openBodies' = openBodies + 1
    /\ respHeader' = ServerTimingChoices[network.serverTiming]
    /\ UNCHANGED << pc, tier, i, measurements, reqErr, req, pingResults,
                    serverLocationData, traceData, testDown, testUp,
                    downloadTests, uploadTests, stdout, stderr, retErr,
                    exitCode, calls, dropped, anomalies, network, sArg, sQ,
                    sRes >>

\* io.Copy fails while the body is drained; the deferred Close runs.
ProbeCopyFail ==
    /\ InProbePhase /\ net = "body"
    /\ Affordable(FailCost)
    /\ openBodies' = openBodies - 1
    /\ calls' = calls
    /\ DropIteration("copy")

\* ProbeDone, had request not closed the response body
ProbeDoneLeavesBodyOpen ==
    /\ InProbePhase /\ net = "body" /\ ~network.down
    /\ timing' = [timing EXCEPT
                     !.ended = timing.ttfb + TransferChoices[network.transfer],
                     !.serverTiming = ServerTimingOf(respHeader)]
    /\ respHeader' = << >>
    /\ measurements' = measurements
    /\ reqErr' = ""
    /\ i' = i + 1
    /\ net' = "idle"
    /\ req' = NoReq
    /\ openBodies' = openBodies
    /\ UNCHANGED << pc, tier, pingResults, serverLocationData, traceData,
                    testDown, testUp, downloadTests, uploadTests, stdout,
                    stderr, retErr, exitCode, calls, dropped, anomalies,
                    network, sArg, sQ, sRes >>

\* What the loop appends for the timing request returned.
SampleOf(t) ==
    CASE pc = "latency"  -> LatencySample(t)
      [] pc = "download" -> DownloadSample(ProbeBytes, t)
      [] pc = "upload"   -> UploadSample(ProbeBytes, t)

\* The body is drained, `ended` is taken, the header is parsed, the body is
\* closed and request returns; the loop appends the sample.
ProbeDone ==
    /\ InProbePhase /\ net = "body" /\ ~network.down
    /\ timing' = [timing EXCEPT
                     !.ended = timing.ttfb + TransferChoices[network.transfer],
                     !.serverTiming = ServerTimingOf(respHeader)]
    /\ respHeader' = << >>
    /\ measurements' = Append(measurements, SampleOf(timing'))
    /\ reqErr' = ""
    /\ i' = i + 1
    /\ net' = "idle"
    /\ req' = NoReq
    /\ openBodies' = openBodies - 1
    /\ UNCHANGED << pc, tier, pingResults, serverLocationData, traceData,
                    testDown, testUp, downloadTests, uploadTests, stdout,
                    stderr, retErr, exitCode, calls, dropped, anomalies,
                    network, sArg, sQ, sRes >>

(***************************************************************************)
(* main, and speedTest up to the report's first lines                      *)
(***************************************************************************)
EnterPhase(p, t) ==
    /\ pc' = p
    /\ tier' = t
    /\ i' = 0
    /\ measurements' = << >>
    /\ calls' = 0
    /\ dropped' = 0

\* main prints the banner and calls speedTest, which calls measureLatency.
MainStart ==
    /\ pc = "main"
    /\ stdout' = Append(stdout, Line("Cloudflare Speed Test", "", 0))
    /\ EnterPhase("latency", 0)
    /\ UNCHANGED << reqErr, net, req, timing, openBodies, pingResults,
                    serverLocationData, traceData, testDown, testUp,
                    downloadTests, uploadTests, stderr, retErr, exitCode,
                    anomalies, network, sArg, sQ, sRes, respHeader >>

RECURSIVE MinOf(_, _)
MinOf(s, m) == IF s = << >> THEN m
               ELSE MinOf(Tail(s), IF Head(s) < m THEN Head(s) ELSE m)

RECURSIVE MaxOf(_, _)
MaxOf(s, m) == IF s = << >> THEN m
               ELSE MaxOf(Tail(s), IF Head(s) > m THEN Head(s) ELSE m)

\* the statistics measureLatency returns, given a first element to start from
LatencyResults(m) ==
    << MinOf(m, m[1]), MaxOf(m, m[1]), Average(m), Median(m), Jitter(m) >>

\* After the loop measureLatency reads measurements[0]: with no sample the
\* bounds check fails and the Go runtime ends the process (exit status 2).
LatencyStats ==
    /\ pc = "latency" /\ net = "idle" /\ i = LatencyIterations
    /\ IF InRange(measurements, 0)
       THEN /\ pingResults' = LatencyResults(measurements)
            /\ EnterPhase("fetchLocations", 0)
            /\ UNCHANGED << stderr, exitCode >>
       ELSE /\ pc' = "panic"
            /\ stderr' = Append(stderr, Line("panic", "index out of range [0] with length 0", 0))
            /\ exitCode' = 2
            /\ UNCHANGED << tier, i, measurements, pingResults, calls, dropped >>
    /\ UNCHANGED << reqErr, net, req, timing, openBodies, serverLocationData,
                    traceData, testDown, testUp, downloadTests, uploadTests,
                    stdout, retErr, anomalies, network, sArg, sQ, sRes, respHeader >>

InFetch == pc \in {"fetchLocations", "fetchTrace"}

FetchPath == IF pc = "fetchLocations" THEN "/locations" ELSE "/cdn-cgi/trace"

\* the message speedTest wraps the fetch's error in
FetchErrorText ==
    IF pc = "fetchLocations" THEN "failed to fetch server location data"
    ELSE "failed to fetch CDN trace"

\* get: client.Get is called.
GetSend ==
    /\ InFetch /\ net = "idle"
    /\ net' = "sent"
    /\ req' = [method |-> "GET", path |-> FetchPath, bytes |-> 0]
    /\ UNCHANGED << pc, tier, i, measurements, reqErr, timing, openBodies,
                    pingResults, serverLocationData, traceData, testDown, testUp,
                    downloadTests, uploadTests, stdout, stderr, retErr,
                    exitCode, calls, dropped, anomalies, network, sArg, sQ, sRes, respHeader >>

\* FetchFails, had speedTest ignored the error and gone on
FetchFailsContinues ==
    /\ pc' = IF pc = "fetchLocations" THEN "fetchTrace" ELSE "report"
    /\ net' = "idle"
    /\ req' = NoReq
    /\ UNCHANGED << tier, i, measurements, reqErr, timing, pingResults,
                    serverLocationData, traceData, testDown, testUp,
                    downloadTests, uploadTests, stdout, stderr, retErr, exitCode,
                    calls, dropped, anomalies, network, sArg, sQ, sRes, respHeader >>

\* get returned an error, or the body did not parse: speedTest returns the
\* wrapped error to main.
FetchFails ==
    /\ pc' = "return"
    /\ retErr' = FetchErrorText
    /\ net' = "idle"
    /\ req' = NoReq
    /\ UNCHANGED << tier, i, measurements, reqErr, timing, pingResults,
                    serverLocationData, traceData, testDown, testUp,
                    downloadTests, uploadTests, stdout, stderr, exitCode,
                    calls, dropped, anomalies, network, sArg, sQ, sRes, respHeader >>

\* client.Get returns an error.
GetFail ==
    /\ InFetch /\ net = "sent"
    /\ openBodies' = openBodies
    /\ FetchFails

\* client.Get returns the response; the body is open.
GetHeaders ==
    /\ InFetch /\ net = "sent" /\ ~network.down
    /\ net' = "body"
    /\ openBodies' = openBodies + 1
    /\ UNCHANGED << pc, tier, i, measurements, reqErr, req, timing, pingResults,
                    serverLocationData, traceData, testDown, testUp,
                    downloadTests, uploadTests, stdout, stderr, retErr,
                    exitCode, calls, dropped, anomalies, network, sArg, sQ, sRes, respHeader >>

\* io.ReadAll fails; the deferred Close runs.
GetReadFail ==
    /\ InFetch /\ net = "body"
    /\ openBodies' = openBodies - 1
    /\ FetchFails

\* The Timeout of the http.Client that carries the request under way.
ClientTimeoutOf(p) ==
    IF p \in {"fetchLocations", "fetchTrace"} THEN GetTimeout ELSE RequestTimeout

\* The client's Timeout expires while the request waits for the response or
\* for the rest of the body: the call returns an error.
ClientTimeout ==
    /\ net \in {"sent", "body"}
    /\ ClientTimeoutOf(pc) > 0
    /\ openBodies' = IF net = "body" THEN openBodies - 1 ELSE openBodies
    /\ IF InFetch
       THEN FetchFails
       ELSE /\ calls' = calls
            /\ DropIteration("timeout")

\* map[iata] = city
LocationMap(entries) ==
    [c \in {entries[k].iata : k \in DOMAIN entries} |->
        LET last == CHOOSE k \in DOMAIN entries :
                       /\ entries[k].iata = c
                       /\ \A j \in DOMAIN entries : entries[j].iata = c => j <= k
        IN  entries[last].city]

\* fetchServerLocationData after get returned the body.
FetchLocationsDone ==
    /\ pc = "fetchLocations" /\ net = "body" /\ ~network.down
    /\ openBodies' = openBodies - 1
    /\ \E body \in LocationBodies :
          IF body.valid
          THEN /\ serverLocationData' = LocationMap(body.entries)
               /\ pc' = "fetchTrace"
               /\ net' = "idle"
               /\ req' = NoReq
               /\ UNCHANGED << tier, i, measurements, reqErr, timing, pingResults,
                               traceData, testDown, testUp, downloadTests,
                               uploadTests, stdout, stderr, retErr, exitCode,
                               calls, dropped, anomalies, network, sArg, sQ, sRes, respHeader >>
          ELSE FetchFails

\* the lines with exactly two parts, as key -> value (a later line wins)
TraceMap(lines) ==
    LET good == {k \in DOMAIN lines : Len(lines[k]) = 2}
    IN  [key \in {lines[k][1] : k \in good} |->
            LET last == CHOOSE k \in good :
                           /\ lines[k][1] = key
                           /\ \A j \in good : lines[j][1] = key => j <= k
            IN  lines[last][2]]

\* fetchCfCdnCgiTrace after get returned the body.
FetchTraceDone ==
    /\ pc = "fetchTrace" /\ net = "body" /\ ~network.down
    /\ openBodies' = openBodies - 1
    /\ \E body \in TraceBodies : traceData' = TraceMap(body)
    /\ pc' = "report"
    /\ net' = "idle"
    /\ req' = NoReq
    /\ UNCHANGED << tier, i, measurements, reqErr, timing, pingResults,
                    serverLocationData, testDown, testUp, downloadTests,
                    uploadTests, stdout, stderr, retErr, exitCode, calls,
                    dropped, anomalies, network, sArg, sQ, sRes, respHeader >>

\* speedTest prints the location, the address, latency and jitter, and
\* calls measureDownload for the first tier.
PrintInfo ==
    /\ pc = "report"
    /\ LET colo == MapGet(traceData, "colo")
           city == MapGet(serverLocationData, colo)
       IN  stdout' = stdout \o
              << Line("Server location", city, 0),
                 Line("Your IP", MapGet(traceData, "ip"), 0),
                 Line("Latency", "ms", pingResults[4]),
                 Line("Jitter", "ms", pingResults[5]) >>
    /\ EnterPhase("download", 1)
    /\ UNCHANGED << reqErr, net, req, timing, openBodies, pingResults,
                    serverLocationData, traceData, testDown, testUp,
                    downloadTests, uploadTests, stderr, retErr, exitCode,
                    anomalies, network, sArg, sQ, sRes, respHeader >>

(***************************************************************************)
(* speedTest: the download and upload tiers and the overall figures        *)
(***************************************************************************)
\* Go's append(dst, src...): ret is the slice returned, dst the caller's
\* first slice as the call leaves it (append writes only past len(dst)).
AppendCall(dst, src) == [ret |-> dst \o src, dst |-> dst]

RECURSIVE AppendAll(_, _)
\* append(append(append(s1, s2...), s3...), ...) over the slices from k on
AppendAll(acc, rest) ==
    IF rest = << >> THEN acc
    ELSE AppendAll(AppendCall(acc, Head(rest)).ret, Tail(rest))

\* measureDownload returns; speedTest keeps the slice as testDown<tier> and
\* prints the tier's median, then goes on to the next tier.
DownloadTierDone ==
    /\ pc = "download" /\ net = "idle" /\ i = Iterations
    /\ LET m == MedianCall(measurements)
       IN  /\ testDown' = Append(testDown, m.values)
           /\ stdout' = Append(stdout, Line(DownloadTiers[tier].label, "Mbps", m.ret))
    /\ IF tier < Len(DownloadTiers)
       THEN EnterPhase("download", tier + 1)
       ELSE EnterPhase("downloadTotal", 0)
    /\ UNCHANGED << reqErr, net, req, timing, openBodies, pingResults,
                    serverLocationData, traceData, testUp, downloadTests,
                    uploadTests, stderr, retErr, exitCode, anomalies,
                    network, sArg, sQ, sRes, respHeader >>

\* speedTest pools the five tiers and prints the 0.9 quantile, then calls
\* measureUpload for the first tier.
DownloadTotal ==
    /\ pc = "downloadTotal"
    /\ LET first == AppendCall(testDown[1], testDown[2])
           pool == AppendAll(first.ret, SubSeq(testDown, 3, Len(testDown)))
           q == QuartileCall(pool, OverallQ)
       IN  /\ testDown' = [testDown EXCEPT ![1] = first.dst]
           /\ downloadTests' = q.values
           /\ stdout' = Append(stdout, Line("Download speed", "Mbps", q.ret))
    /\ EnterPhase("upload", 1)
    /\ UNCHANGED << reqErr, net, req, timing, openBodies, pingResults,
                    serverLocationData, traceData, testUp, uploadTests,
                    stderr, retErr, exitCode, anomalies, network, sArg, sQ, sRes, respHeader >>

\* measureUpload returns; speedTest keeps the slice as testUp<tier>.
UploadTierDone ==
    /\ pc = "upload" /\ net = "idle" /\ i = Iterations
    /\ testUp' = Append(testUp, measurements)
    /\ IF tier < Len(UploadTiers)
       THEN EnterPhase("upload", tier + 1)
       ELSE EnterPhase("uploadTotal", 0)
    /\ UNCHANGED << reqErr, net, req, timing, openBodies, pingResults,
                    serverLocationData, traceData, testDown, downloadTests,
                    uploadTests, stdout, stderr, retErr, exitCode, anomalies,
                    network, sArg, sQ, sRes, respHeader >>

\* speedTest pools the three tiers, prints the 0.9 quantile and returns nil.
UploadTotal ==
    /\ pc = "uploadTotal"
    /\ LET first == AppendCall(testUp[1], testUp[2])
           pool == AppendAll(first.ret, SubSeq(testUp, 3, Len(testUp)))
           q == QuartileCall(pool, OverallQ)
       IN  /\ testUp' = [testUp EXCEPT ![1] = first.dst]
           /\ uploadTests' = q.values
           /\ stdout' = Append(stdout, Line("Upload speed", "Mbps", q.ret))
    /\ pc' = "return"
    /\ retErr' = ""
    /\ UNCHANGED << tier, i, measurements, reqErr, net, req, timing, openBodies,
                    pingResults, serverLocationData, traceData, testDown,
                    downloadTests, stderr, exitCode, calls, dropped, anomalies,
                    network, sArg, sQ, sRes, respHeader >>

\* main: speedTest has returned; an error is printed and the exit status is 1.
MainExit ==
    /\ pc = "return"
    /\ pc' = "exit"
    /\ IF retErr # ""
       THEN /\ stderr' = Append(stderr, Line("Error", retErr, 0))
            /\ exitCode' = 1
       ELSE /\ stderr' = stderr
            /\ exitCode' = 0
    /\ UNCHANGED << tier, i, measurements, reqErr, net, req, timing, openBodies,
                    pingResults, serverLocationData, traceData, testDown, testUp,
                    downloadTests, uploadTests, stdout, retErr, calls, dropped,
                    anomalies, network, sArg, sQ, sRes, respHeader >>

Terminated == pc \in {"exit", "panic"}

\* The conditions that differ from n in exactly one respect.
Changes(n) ==
    { m \in [down : BOOLEAN, ttfb : DOMAIN TtfbChoices,
              transfer : DOMAIN TransferChoices,
              serverTiming : DOMAIN ServerTimingChoices] :
        Cardinality({f \in {"down", "ttfb", "transfer", "serverTiming"} :
                        m[f] # n[f]}) = 1 }

\* The network's condition changes while a request waits for its response.
NetworkChanges ==
    /\ net = "sent"
    /\ Affordable(1)
    /\ network' \in Changes(network)
    /\ anomalies' = anomalies + 1
    /\ UNCHANGED << pc, tier, i, measurements, reqErr, net, req, timing,
                    openBodies, pingResults, serverLocationData, traceData,
                    testDown, testUp, downloadTests, uploadTests, stdout,
                    stderr, retErr, exitCode, calls, dropped, sArg, sQ, sRes, respHeader >>

(***************************************************************************)
(* The program                                                             *)
(***************************************************************************)
\* the steps the program takes by itself
Local ==
    \/ MainStart
    \/ ProbeBuildFail
    \/ ProbeSend
    \/ LatencyStats
    \/ GetSend
    \/ ClientTimeout
    \/ PrintInfo
    \/ DownloadTierDone
    \/ DownloadTotal
    \/ UploadTierDone
    \/ UploadTotal
    \/ MainExit

\* the steps that wait for the network: an answer may never come
Network ==
    \/ ProbeDoFail
    \/ ProbeHeaders
    \/ ProbeCopyFail
    \/ ProbeDone
    \/ GetFail
    \/ GetHeaders
    \/ GetReadFail
    \/ FetchLocationsDone
    \/ FetchTraceDone
    \/ NetworkChanges

Next == Local \/ Network

Spec == Init /\ [][Next]_vars

\* The program is single-threaded and runs whenever it can; the network owes
\* nothing.
FairSpec == Init /\ [][Next]_vars /\ WF_vars(Local)

(***************************************************************************)
(* The statistics on their own: a caller holding a slice sArg calls        *)
(* Median, Quartile or append on it.                                       *)
(***************************************************************************)
\* the samples drawn: finite speeds and +Inf
SampleValues == {2, 4, 6, PosInf}

\* the second slice of an append
AppendTails == { << >>, <<4>>, <<6, 2>> }

SlicesUpTo(n) == UNION { [1..k -> SampleValues] : k \in 0..n }

StatsInit ==
    /\ pc = "stats"
    /\ sArg \in SlicesUpTo(MaxLen)
    /\ sQ \in 0..QDen
    /\ sRes = NoCall
    /\ tier = 0
    /\ i = 0
    /\ measurements = << >>
    /\ reqErr = ""
    /\ net = "idle"
    /\ req = NoReq
    /\ timing = ZeroTiming
    /\ openBodies = 0
    /\ pingResults = << >>
    /\ serverLocationData = EmptyMap
    /\ traceData = EmptyMap
    /\ testDown = << >>
    /\ testUp = << >>
    /\ downloadTests = << >>
    /\ uploadTests = << >>
    /\ stdout = << >>
    /\ stderr = << >>
    /\ retErr = ""
    /\ exitCode = 0 - 1
    /\ calls = 0
    /\ dropped = 0
    /\ network = Nominal(FALSE)
    /\ anomalies = 0
    /\ respHeader = << >>

StatsFrame ==
    UNCHANGED << pc, tier, i, measurements, reqErr, net, req, timing, openBodies,
                 pingResults, serverLocationData, traceData, testDown, testUp,
                 downloadTests, uploadTests, stdout, stderr, retErr, exitCode,
                 calls, dropped, network, anomalies, sQ, respHeader >>

CallMedian ==
    /\ pc = "stats"
    /\ LET r == MedianCall(sArg)
       IN  /\ sRes' = [fn |-> "Median", input |-> sArg, q |-> 0, ret |-> r.ret,
                       out |-> << >>, pos |-> 0, panicked |-> FALSE]
           /\ sArg' = r.values
    /\ StatsFrame

CallQuartile ==
    /\ pc = "stats"
    /\ LET r == QuartileCall(sArg, sQ)
       IN  /\ sRes' = [fn |-> "Quartile", input |-> sArg, q |-> sQ, ret |-> r.ret,
                       out |-> << >>, pos |-> r.pos, panicked |-> r.panicked]
           /\ sArg' = r.values
    /\ StatsFrame

CallAppend ==
    /\ pc = "stats"
    /\ \E src \in AppendTails :
          LET r == AppendCall(sArg, src)
          IN  /\ sRes' = [fn |-> "append", input |-> sArg, q |-> 0, ret |-> 0,
                          out |-> r.ret, pos |-> 0, panicked |-> FALSE]
              /\ sArg' = r.dst
    /\ StatsFrame

StatsNext == CallMedian \/ CallQuartile \/ CallAppend

StatsSpec == StatsInit /\ [][StatsNext]_vars

(***************************************************************************)
(* request on its own, from the arrival of the response on: a response     *)
(* with some Server-Timing value is in hand, its body is drained and the   *)
(* header parsed.                                                          *)
(***************************************************************************)
\* fields a Server-Timing value is put together from ("" among them)
HeaderFields ==
    { << >>,
      <<"c", "f">>,
      <<"d", "u", "r", "=", "2">>,
      <<" ", "d", "u", "r", "=", "2", ".", "5", " ">>,
      <<"d", "u", "r", "=", "0">>,
      <<"d", "u", "r", "=", "a">>,
      <<"d", "u", "r", "=">>,
      <<"d", "u", "r", "=", " ", "2">>,
      <<"d", "u", "r", "=", "2", "x">>,
      <<"x", "d", "u", "r", "=", "2">> }

RECURSIVE Join(_, _)
\* strings.Join(fs, sep)
Join(fs, sep) ==
    IF Len(fs) = 1 THEN fs[1] ELSE fs[1] \o <<sep>> \o Join(Tail(fs), sep)

\* the values drawn; the empty one is the header absent
Headers ==
    { Join(fs, ";") : fs \in UNION { [1..k -> HeaderFields] : k \in 1..MaxFields } }

HeaderInit ==
    /\ pc = "request"
    /\ net = "body"
    /\ req = [method |-> "POST", path |-> "/__up", bytes |-> 11000]
    /\ timing = [ZeroTiming EXCEPT !.ttfb = TtfbChoices[1]]
    /\ openBodies = 1
    /\ respHeader \in Headers
    /\ reqErr = ""
    /\ tier = 0
    /\ i = 0
    /\ measurements = << >>
    /\ pingResults = << >>
    /\ serverLocationData = EmptyMap
    /\ traceData = EmptyMap
    /\ testDown = << >>
    /\ testUp = << >>
    /\ downloadTests = << >>
    /\ uploadTests = << >>
    /\ stdout = << >>
    /\ stderr = << >>
    /\ retErr = ""
    /\ exitCode = 0 - 1
    /\ calls = 1
    /\ dropped = 0
    /\ network = Nominal(FALSE)
    /\ anomalies = 0
    /\ sArg = << >>
    /\ sQ = 0
    /\ sRes = NoCall

HeaderFrame ==
    UNCHANGED << tier, i, measurements, req, pingResults, serverLocationData,
                 traceData, testDown, testUp, downloadTests, uploadTests,
                 stdout, stderr, retErr, exitCode, calls, dropped, network,
                 anomalies, sArg, sQ, sRes, respHeader >>

\* the body is drained, `ended` is taken, the header is parsed, the body is
\* closed and request returns the timing
RequestReturns ==
    /\ pc = "request" /\ net = "body"
    /\ \E t \in DOMAIN TransferChoices :
          timing' = [timing EXCEPT
                        !.ended = timing.ttfb + TransferChoices[t],
                        !.serverTiming = ServerTimingOf(respHeader)]
    /\ reqErr' = ""
    /\ net' = "idle"
    /\ openBodies' = openBodies - 1
    /\ pc' = "returned"
    /\ HeaderFrame

\* io.Copy fails: request returns (nil, err), the deferred Close runs
RequestCopyFails ==
    /\ pc = "request" /\ net = "body"
    /\ timing' = ZeroTiming
    /\ reqErr' = "copy"
    /\ net' = "idle"
    /\ openBodies' = openBodies - 1
    /\ pc' = "returned"
    /\ HeaderFrame

HeaderNext == RequestReturns \/ RequestCopyFails

HeaderSpec == HeaderInit /\ [][HeaderNext]_vars

(***************************************************************************)
(* Properties                                                              *)
(***************************************************************************)
HasLine(label) == \E k \in DOMAIN stdout : stdout[k].label = label

\* the positions of the lines with this label
LinesOf(label) == {k \in DOMAIN stdout : stdout[k].label = label}

RECURSIVE TotalLen(_)
TotalLen(slices) ==
    IF slices = << >> THEN 0 ELSE Len(Head(slices)) + TotalLen(Tail(slices))

\* C1: when all 20 latency iterations fail, measureLatency does not crash: it
\* computes its statistics over the empty sample set (0 for mean, median and
\* jitter) and the run goes on or ends in a reported error, never in an
\* index-out-of-range fault.
C1_EmptyLatencyDoesNotCrash ==
    /\ pc # "panic"
    /\ exitCode # 2
    /\ \A k \in DOMAIN stderr : stderr[k].label # "panic"

\* C2: a phase configured with N iterations issues exactly N probe requests,
\* none re-attempted; with K of them failed its sample sequence has N-K
\* entries; meanwhile the sequence is never longer than the number of
\* iterations started, and it only grows.
C2_LoopCounts ==
    InProbePhase =>
        /\ calls = i + (IF net = "idle" THEN 0 ELSE 1)
        /\ calls <= Iterations
        /\ Len(measurements) = i - dropped
        /\ Len(measurements) <= calls
        /\ i = Iterations =>
              /\ calls = Iterations
              /\ Len(measurements) = Iterations - dropped

C2_LoopStep ==
    (InProbePhase /\ pc' = pc /\ tier' = tier) =>
        /\ Len(measurements') >= Len(measurements)
        /\ SubSeq(measurements', 1, Len(measurements)) = measurements
        /\ calls' \in {calls, calls + 1}

C2_PhaseYieldsNMinusK == [](C2_LoopCounts) /\ [][C2_LoopStep]_vars

\* C2 witness: a download tier has run all its iterations, some failed, and
\* the others left their samples
C2_Witness ==
    /\ pc = "download" /\ tier = 1 /\ i = Iterations /\ net = "idle"
    /\ dropped >= 2
    /\ Len(measurements) = 10 - dropped
    /\ Len(measurements) >= 1

\* the download and upload probes of one run: the iterations of the eight tiers
ThroughputProbes == 10 + 8 + 6 + 4 + 1 + 10 + 10 + 8

\* the Error lines printed after the latency report
ErrorsAfterReport ==
    LET report == LinesOf("Jitter")
    IN  {k \in LinesOf("Error") : \E j \in report : j < k}

\* C3: a failing download or upload probe never aborts the run: whatever
\* iterations fail, every later iteration and tier is attempted, the overall
\* figures are printed and speedTest returns nil.
C3_ProbeFailureNeverAborts ==
    /\ pc \in {"download", "downloadTotal", "upload", "uploadTotal"} =>
          retErr = "" /\ exitCode = 0 - 1
    /\ pc = "panic" => ~HasLine("Jitter")
    /\ (pc \in {"return", "exit"} /\ HasLine("Jitter")) =>
          /\ retErr = ""
          /\ Len(testDown) = 5 /\ Len(testUp) = 3
          /\ TotalLen(testDown) + TotalLen(testUp) + Cardinality(ErrorsAfterReport)
                = ThroughputProbes
          /\ Cardinality(LinesOf("Download speed")) = 1
          /\ Cardinality(LinesOf("Upload speed")) = 1
          /\ pc = "exit" => exitCode = 0

\* C3 witness: the run ended well although probes of the second download
\* tier and every upload probe failed
C3_Witness ==
    /\ pc = "exit" /\ exitCode = 0 /\ retErr = ""
    /\ Len(testDown) = 5 /\ Len(testDown[1]) = 10
    /\ Len(testDown[2]) \in 1..7
    /\ Len(testUp) = 3 /\ TotalLen(testUp) = 0

\* C4: when fetching the location table or the trace fails, speedTest
\* returns at once a wrapped error naming the stage, the process exits
\* non-zero, and after the failing fetch no probe is issued and no report
\* line is printed.
C4_AfterFailedFetch ==
    retErr # "" =>
        /\ pc \in {"return", "exit"}
        /\ net = "idle" /\ req = NoReq /\ calls = 0
        /\ testDown = << >> /\ testUp = << >>
        /\ \A k \in DOMAIN stdout :
              stdout[k].label \in {"Cloudflare Speed Test", "Error"}
        /\ traceData = EmptyMap
        /\ \/ retErr = "failed to fetch server location data"
              /\ serverLocationData = EmptyMap
           \/ retErr = "failed to fetch CDN trace"
              /\ serverLocationData # EmptyMap
        /\ pc = "exit" =>
              exitCode = 1 /\ stderr = << Line("Error", retErr, 0) >>

\* a step in which the fetch under way ends without its data
C4_FetchFailsNow ==
    /\ InFetch /\ net # "idle" /\ net' = "idle"
    /\ IF pc = "fetchLocations" THEN serverLocationData' = EmptyMap
                                ELSE traceData' = EmptyMap

C4_Step ==
    /\ C4_FetchFailsNow =>
          /\ pc' = "return"
          /\ retErr' = IF pc = "fetchLocations"
                          THEN "failed to fetch server location data"
                          ELSE "failed to fetch CDN trace"
    /\ retErr # "" =>
          /\ stdout' = stdout /\ net' = "idle" /\ calls' = calls
          /\ retErr' = retErr

C4_FetchFailureAbortsRun == [](C4_AfterFailedFetch) /\ [][C4_Step]_vars

\* C4 witness: the trace fetch failed after the locations were fetched, and
\* the process has exited with status 1
C4_Witness ==
    /\ pc = "exit" /\ exitCode = 1
    /\ retErr = "failed to fetch CDN trace"
    /\ serverLocationData # EmptyMap
    /\ Len(stderr) = 1

C6_EveryRunTerminates ==
    /\ (InProbePhase /\ net # "idle") ~> (net = "idle")
    /\ <>Terminated

\* C7: execution is strictly sequential: at most one request is under way,
\* its body is drained and closed before the next request is issued, and the
\* phases run in the fixed order, each tier finishing before the next starts:
\* latency 20 x 1000 bytes; downloads 101000/10, 1001000/8, 10001000/6,
\* 25001000/4, 100001000/1; uploads 11000/10, 101000/10, 1001000/8.
Stage ==
    CASE pc = "latency"        -> 1
      [] pc = "fetchLocations" -> 2
      [] pc = "fetchTrace"     -> 3
      [] pc = "report"         -> 4
      [] pc = "download"       -> 4 + tier
      [] pc = "downloadTotal"  -> 10
      [] pc = "upload"         -> 10 + tier
      [] pc = "uploadTotal"    -> 14
      [] pc = "return"         -> 15
      [] pc = "exit"           -> 16
      [] pc = "panic"          -> 17
      [] OTHER                 -> 0

C7_Plan ==
    [st \in {1, 5, 6, 7, 8, 9, 11, 12, 13} |->
        CASE st = 1  -> [method |-> "GET",  path |-> "/__down", bytes |-> 1000,      n |-> 20]
          [] st = 5  -> [method |-> "GET",  path |-> "/__down", bytes |-> 101000,    n |-> 10]
          [] st = 6  -> [method |-> "GET",  path |-> "/__down", bytes |-> 1001000,   n |-> 8]
          [] st = 7  -> [method |-> "GET",  path |-> "/__down", bytes |-> 10001000,  n |-> 6]
          [] st = 8  -> [method |-> "GET",  path |-> "/__down", bytes |-> 25001000,  n |-> 4]
          [] st = 9  -> [method |-> "GET",  path |-> "/__down", bytes |-> 100001000, n |-> 1]
          [] st = 11 -> [method |-> "POST", path |-> "/__up",   bytes |-> 11000,     n |-> 10]
          [] st = 12 -> [method |-> "POST", path |-> "/__up",   bytes |-> 101000,    n |-> 10]
          [] st = 13 -> [method |-> "POST", path |-> "/__up",   bytes |-> 1001000,   n |-> 8]]

C7_OneAtATime ==
    /\ openBodies \in {0, 1}
    /\ (net = "body") <=> (openBodies = 1)
    /\ net # "idle" => (InProbePhase \/ InFetch)
    /\ InProbePhase =>
          /\ Stage \in DOMAIN C7_Plan
          /\ calls <= C7_Plan[Stage].n
          /\ net # "idle" =>
                /\ req.method = C7_Plan[Stage].method
                /\ req.path = C7_Plan[Stage].path
                /\ req.bytes = C7_Plan[Stage].bytes

C7_Step ==
    /\ (net # "sent" /\ net' = "sent") => (net = "idle" /\ openBodies = 0)
    /\ Stage' # Stage =>
          /\ net' = "idle" /\ openBodies' = 0
          /\ Stage' = Stage + 1 \/ pc' \in {"return", "panic"}
          /\ (Stage \in DOMAIN C7_Plan) =>
                (net = "idle" /\ calls = C7_Plan[Stage].n)

C7_StrictlySequential == [](C7_OneAtATime) /\ [][C7_Step]_vars

\* C7 witness: the last request of the last upload tier is under way
C7_Witness ==
    /\ pc = "upload" /\ tier = 3 /\ calls = 8
    /\ net = "body" /\ openBodies = 1
    /\ req = [method |-> "POST", path |-> "/__up", bytes |-> 1001000]
    /\ Len(testDown) = 5 /\ Len(testUp) = 2

\* v is the element that stands at 0-based index idx once s is in ascending
\* order: fewer than idx+1 elements are smaller, at least idx+1 are not larger
IsRank(s, idx, v) ==
    /\ \E k \in DOMAIN s : s[k] = v
    /\ Cardinality({k \in DOMAIN s : s[k] < v}) <= idx
    /\ Cardinality({k \in DOMAIN s : s[k] <= v}) > idx

OrderStat(s, idx) == CHOOSE v \in {s[k] : k \in DOMAIN s} : IsRank(s, idx, v)

\* C8: for a non-empty sequence of length n and q in [0,1], Quartile returns
\* the element at index min(floor(n*q), n-1) of the ascending order and never
\* indexes out of bounds (q = 1.0 selects the last element); for the empty
\* sequence it returns 0.
C8_QuantileNearestRank ==
    sRes.fn = "Quartile" =>
        /\ ~sRes.panicked
        /\ IF sRes.input = << >>
           THEN sRes.ret = 0
           ELSE LET n == Len(sRes.input)
                    idx == Min((n * sRes.q) \div QDen, n - 1)
                IN  /\ sRes.pos = idx
                    /\ IsRank(sRes.input, idx, sRes.ret)

\* C8 witness: Quartile of an unsorted pair at q = 1.0 returned the larger
\* element, read at index 1
C8_Witness ==
    /\ sRes.fn = "Quartile" /\ sRes.q = QDen
    /\ sRes.input = <<6, 2>>
    /\ sRes.pos = 1 /\ sRes.ret = 6

\* the median as the statement of C9 defines it, by ranks instead of sorting
C9_ExpectedMedian(s) ==
    IF s = << >> THEN 0
    ELSE LET n == Len(s)
         IN  IF n % 2 = 1
             THEN OrderStat(s, (n - 1) \div 2)
             ELSE FDivN(FAdd(OrderStat(s, n \div 2 - 1), OrderStat(s, n \div 2)), 2)

C9_Labels == <<"100kB speed", "1MB speed", "10MB speed", "25MB speed", "100MB speed">>

C9_Bytes == <<101000, 1001000, 10001000, 25001000, 100001000>>

\* what speedTest has printed, the Error lines of the loops left out: the
\* banner, four lines of the report's head, then the tiers and the totals
C9_Report == SelectSeq(stdout, LAMBDA l : l.label # "Error")

\* the report agrees with the samples: every tier line printed so far shows
\* the median of its tier, the Download speed line the 0.9 quantile of all
C9_ReportAgrees ==
    LET report == C9_Report
    IN  /\ \A k \in 1..Len(testDown) :
              /\ Len(report) >= 5 + k
              /\ report[5 + k].label = C9_Labels[k]
              /\ report[5 + k].num = C9_ExpectedMedian(testDown[k])
              /\ \A j \in DOMAIN testDown[k] :
                    \E d \in DOMAIN TransferChoices :
                       testDown[k][j] * TransferChoices[d] = C9_Bytes[k] * 8
        /\ Len(testDown) <= 5
        /\ \A j \in DOMAIN report :
              /\ j > 5 + Len(testDown) =>
                    report[j].label \in {"Download speed", "Upload speed"}
              /\ report[j].label = "Download speed" =>
                    /\ j = 11
                    /\ Len(testDown) = 5
                    /\ downloadTests = testDown[1] \o testDown[2] \o testDown[3]
                                          \o testDown[4] \o testDown[5]
                    /\ Len(downloadTests) = TotalLen(testDown)
                    /\ report[j].num =
                          IF downloadTests = << >> THEN 0
                          ELSE LET n == Len(downloadTests)
                               IN  OrderStat(downloadTests,
                                             Min((n * 9) \div 10, n - 1))
        /\ pc \in {"upload", "uploadTotal"} =>
              (Len(report) = 11 /\ report[11].label = "Download speed")

\* what C9_ReportAgrees reads besides the report
C9_Reads == <<pc, testDown, downloadTests>>

\* a step that leaves the report as it is: stdout is unchanged or has grown
\* by one Error line of a measure loop
C9_ReportUnchanged ==
    \/ stdout' = stdout
    \/ /\ Len(stdout') = Len(stdout) + 1
       /\ stdout'[Len(stdout')].label = "Error"
       /\ SubSeq(stdout', 1, Len(stdout)) = stdout

\* C9: each download tier's printed speed is the median of that tier's
\* samples (middle element for an odd count, mean of the two middle elements
\* for an even count, 0 for none), and the overall download figure is the 0.9
\* quantile of the five tiers' samples put together, as many as the tiers
\* have in all.  Stated as: the report agrees with the samples at the start
\* and after every step that changes the report or the samples, that is, in
\* every reachable state.
C9_TierMediansAndOverall ==
    /\ C9_ReportAgrees
    /\ [][(C9_Reads' = C9_Reads /\ C9_ReportUnchanged) \/ C9_ReportAgrees']_vars

\* C9 witness: the first tier's ten samples fall into two halves of unequal
\* speed, so that its printed median is the mean of two unlike middle
\* elements, and the overall figure has been printed
C9_Witness ==
    /\ HasLine("Download speed")
    /\ Len(testDown[1]) = 10
    /\ \E j \in LinesOf("100kB speed") :
          /\ stdout[j].num = 606
          /\ \A k \in DOMAIN testDown[1] : testDown[1][k] # stdout[j].num
    /\ Len(downloadTests) = 29

\* C10: a call of Median or Quartile leaves the caller's sequence as it was,
\* the same elements in the same order; so does the append that pools the
\* tiers' slices.
C10_CallerSliceUnchanged ==
    sRes.fn # "" => sArg = sRes.input

\* C10 witness: Median was called on an unsorted slice, returned its middle
\* value, and the slice is still in its order
C10_Witness ==
    /\ sRes.fn = "Median"
    /\ sRes.input = <<6, 2, 4>>
    /\ sRes.ret = 4
    /\ sArg = <<6, 2, 4>>


Spaces(h, a, b) == \A k \in a..b : h[k] = " "

\* where the second field of h lies: <<p, q>> with h[p] the first ";" and q
\* the place of the next one, or just past the end
C11_SecondField(h) ==
    { w \in (1..Len(h)) \X (2..Len(h) + 1) :
        /\ h[w[1]] = ";"
        /\ \A k \in 1..(w[1] - 1) : h[k] # ";"
        /\ w[1] < w[2]
        /\ \A k \in (w[1] + 1)..(w[2] - 1) : h[k] # ";"
        /\ w[2] <= Len(h) => h[w[2]] = ";" }

\* the numbers d for which the field h[p+1..q-1] reads  spaces dur=<d> spaces
\* with <d> a number that ParseFloat accepts
C11_DurIn(h, p, q) ==
    { ParseFloat(SubSeq(h, w[1] + 4, w[2])).val :
        w \in { v \in ((p + 1)..(q - 1)) \X ((p + 1)..(q - 1)) :
                  /\ v[1] + 3 <= v[2]
                  /\ Spaces(h, p + 1, v[1] - 1) /\ Spaces(h, v[2] + 1, q - 1)
                  /\ h[v[2]] # " "
                  /\ SubSeq(h, v[1], v[1] + 3) = DurPrefix
                  /\ ParseFloat(SubSeq(h, v[1] + 4, v[2])).ok } }

C11_Durations(h) == UNION { C11_DurIn(h, w[1], w[2]) : w \in C11_SecondField(h) }

\* C11: in a request that succeeds, serverTiming is d exactly when the
\* Server-Timing header is present, has at least two fields separated by
\* ";", and its second field, trimmed, is dur= followed by a parseable
\* number d; in every other case it stays 0.  The header never makes the
\* request fail: it returns its timing whatever the header says.
C11_ServerTimingParsed ==
    (pc = "returned" /\ reqErr = "") =>
        /\ Cardinality(C11_Durations(respHeader)) <= 1
        /\ \A d \in C11_Durations(respHeader) : timing.serverTiming = d
        /\ C11_Durations(respHeader) = {} => timing.serverTiming = 0
        /\ timing.ttfb = TtfbChoices[1] /\ timing.ended > timing.ttfb
        /\ net = "idle" /\ openBodies = 0

\* C11 witness: the header  cf; dur=2.5 ;dur=2  gave 2.5 ms
C11_Witness ==
    /\ pc = "returned" /\ reqErr = ""
    /\ respHeader = <<"c", "f", ";", " ", "d", "u", "r", "=", "2", ".", "5", " ",
                      ";", "d", "u", "r", "=", "2">>
    /\ timing.serverTiming = 2500

\* C12: every sample of the upload phase is computed with a non-zero
\* denominator: an upload that succeeds with serverTiming 0 (the
\* Server-Timing header absent or unparsable) contributes no sample that is
\* bits / 0, so the upload samples pooled for the 0.9 quantile are all finite.
C12_UploadSamplesFinite ==
    /\ pc = "upload" => \A k \in DOMAIN measurements : ~IsInf(measurements[k])
    /\ \A t \in DOMAIN testUp : \A k \in DOMAIN testUp[t] : ~IsInf(testUp[t][k])
    /\ \A k \in DOMAIN uploadTests : ~IsInf(uploadTests[k])

=============================================================================
